---------------------------- MODULE Spec2Model ----------------------------
(***************************************************************************)
(* A model of conmgr: the Contact record (conmgr/contact.py) and the       *)
(* ContactManager collection (conmgr/contact_mgr.py) with its two index    *)
(* sets, its JSON snapshot and the file it is saved to and loaded from.    *)
(*                                                                         *)
(* Python values are tagged records: None is [ty |-> "NoneType"], a str is *)
(* [ty |-> "str", s |-> <sequence of one-character strings>].  A Contact   *)
(* object is a record of its five attributes plus id, the name under which *)
(* the caller of ContactManager(...) still holds the object (0: no such    *)
(* name); within self.contacts an object is identified by its position.    *)
(* Every method is an operator that returns [exc, msg, ret, m]: the        *)
(* exception raised ("None" when the call returns), its message, the       *)
(* returned value and the manager's fields after the call.                 *)
(***************************************************************************)
EXTENDS Naturals, Sequences, FiniteSets, TLC

VARIABLES
    phase,        \* "new": not constructed; "ready": constructed; "failed": __init__ raised
    argContacts,  \* the caller's list handed to ContactManager(contacts, store_path)
    argStore,     \* the caller's store_path argument (a str)
    contacts,     \* self.contacts
    store_path,   \* self.store_path (a Path)
    phone_set,    \* self._phone_set
    email_set,    \* self._email_set
    files,        \* the file system's regular files: path string -> content
    last,         \* the last call: [op, exc, msg, ret]
    nops          \* number of mutating calls made (counted under SpecFile only)

vars == <<phase, argContacts, argStore, contacts, store_path, phone_set,
          email_set, files, last, nops>>

mgrVars == <<contacts, store_path, phone_set, email_set>>

-----------------------------------------------------------------------------
(* Python values *)

None == [ty |-> "NoneType"]

Str(chars) == [ty |-> "str", s |-> chars]

\* bool(v) of a str or None, as `not phone` reads it
Truthy(v) == v.ty = "str" /\ Len(v.s) > 0

\* True and False
Bool(b) == [ty |-> "bool", v |-> b]

\* an optional argument the caller leaves out
Omitted == [ty |-> "omitted"]

Digits == {"0", "1", "2", "3", "4", "5", "6", "7", "8", "9"}

\* strings the model draws its inputs from
P1 == Str(<<"1", "1", "1", "1", "1", "1", "1", "1", "1">>)
P2 == Str(<<"2", "2", "2", "2", "2", "2", "2", "2", "2">>)
E1 == Str(<<"a", "@", "x", ".", "c">>)
E2 == Str(<<"b", "@", "y", ".", "c">>)
TestVal == Str(<<"t", "e", "s", "t">>)
Empty == Str(<<>>)
Jake == Str(<<"j", "a", "k", "e">>)
Smith == Str(<<"s", "m", "i", "t", "h">>)

-----------------------------------------------------------------------------
(* conmgr/contact.py *)

ATTR_LIST == <<"first_name", "last_name", "email", "phone", "address">>

ATTR_SET == {ATTR_LIST[i] : i \in 1..Len(ATTR_LIST)}

\* number of leading digits the phone pattern \d{9} asks for
PhoneDigits == 9

\* the email pattern matched with re.DOTALL, '.' matching a newline too
EmailMatchesDotAll(email) ==
    \E i, j \in 1..Len(email.s) :
        /\ i < j
        /\ email.s[i] = "@"
        /\ email.s[j] = "."

\* re.match(r".*@.*\..*", email): an '@', later a '.', no newline before that '.'
EmailMatches(email) ==
    \E i, j \in 1..Len(email.s) :
        /\ i < j
        /\ email.s[i] = "@"
        /\ email.s[j] = "."
        /\ \A k \in 1..(j - 1) : email.s[k] # "\n"

\* re.match(r"\d{9}", phone): the first nine characters are digits
PhoneMatches(phone) ==
    /\ Len(phone.s) >= PhoneDigits
    /\ \A k \in 1..PhoneDigits : phone.s[k] \in Digits

Raise(exc, msg, m) == [exc |-> exc, msg |-> msg, ret |-> None, m |-> m]

Return(ret, m) == [exc |-> "None", msg |-> "", ret |-> ret, m |-> m]

\* Contact.__init__; id is the name the caller holds the new object under
Contact(id, first, lastName, email, phone, addr) ==
    IF ~EmailMatches(email)
    THEN Raise("ValueError", "Email is invalid.", None)
    ELSE IF ~PhoneMatches(phone)
    THEN Raise("ValueError", "Phone is invalid.", None)
    ELSE Return([id |-> id, first_name |-> first, last_name |-> lastName,
                 email |-> email, phone |-> phone, address |-> addr], None)

\* __eq__ asking for the same phone and the same email
ContactEqBoth(a, b) == (a.phone = b.phone) /\ (a.email = b.email)

\* Contact.__eq__
ContactEq(a, b) == (a.phone = b.phone) \/ (a.email = b.email)

\* the five attributes of a Contact, without its identity
Fields(c) == [first_name |-> c.first_name, last_name |-> c.last_name,
              email |-> c.email, phone |-> c.phone, address |-> c.address]

FieldsOf(cs) == [i \in 1..Len(cs) |-> Fields(cs[i])]

-----------------------------------------------------------------------------
(* pathlib: a path is its anchor and its parts; str(path) and Path(str) *)

RECURSIVE SplitSlash(_, _)
\* the components of chars between '/', cur being the component read so far;
\* empty components and '.' components are dropped, as pathlib drops them
SplitSlash(chars, cur) ==
    LET keep == IF cur = <<>> \/ cur = <<".">> THEN <<>> ELSE <<cur>>
    IN  IF chars = <<>> THEN keep
        ELSE IF Head(chars) = "/" THEN keep \o SplitSlash(Tail(chars), <<>>)
        ELSE SplitSlash(Tail(chars), Append(cur, Head(chars)))

\* pl.Path(s)
Path(str) ==
    [anchor |-> Len(str.s) > 0 /\ str.s[1] = "/",
     parts |-> SplitSlash(str.s, <<>>)]

RECURSIVE JoinSlash(_)
JoinSlash(parts) ==
    IF Len(parts) = 1 THEN parts[1]
    ELSE parts[1] \o <<"/">> \o JoinSlash(Tail(parts))

\* str(path)
PathStr(p) ==
    IF p.parts = <<>>
    THEN Str(IF p.anchor THEN <<"/">> ELSE <<".">>)
    ELSE Str((IF p.anchor THEN <<"/">> ELSE <<>>) \o JoinSlash(p.parts))

\* path / name, name being relative
PathJoin(p, name) ==
    [anchor |-> p.anchor, parts |-> p.parts \o SplitSlash(name.s, <<>>)]

\* path.parent taken for the path itself
ParentIsSelf(p) == p

\* path.parent
Parent(p) ==
    IF p.parts = <<>> THEN p
    ELSE [p EXCEPT !.parts = SubSeq(p.parts, 1, Len(p.parts) - 1)]

\* path.suffix: the last component from its last '.', unless that '.' leads or ends it
Suffix(p) ==
    IF p.parts = <<>> THEN <<>>
    ELSE LET name == p.parts[Len(p.parts)]
             dots == {i \in 1..Len(name) : name[i] = "."}
         IN  IF dots = {} THEN <<>>
             ELSE LET i == CHOOSE d \in dots : \A e \in dots : e <= d
                  IN  IF 1 < i /\ i < Len(name)
                      THEN SubSeq(name, i, Len(name)) ELSE <<>>

ContactsJson == Str(<<"c", "o", "n", "t", "a", "c", "t", "s", ".", "j", "s", "o", "n">>)

DotJson == <<".", "j", "s", "o", "n">>

-----------------------------------------------------------------------------
(* the file system: the directories that exist, and the regular files *)

StoreDir == Str(<<"/", "t", "/", "s">>)
MissingDir == Str(<<"/", "t", "/", "m">>)
NotesTxt == Str(<<"/", "t", "/", "n", ".", "t", "x", "t">>)
EmptyJson == Str(<<"/", "t", "/", "e", ".", "j", "s", "o", "n">>)

ExistingDirs == {Str(<<"/">>), Str(<<"/", "t">>), StoreDir}

Exists(fs, p) == PathStr(p) \in ExistingDirs \/ PathStr(p) \in DOMAIN fs

IsDir(p) == PathStr(p) \in ExistingDirs

IsFile(fs, p) == PathStr(p) \in DOMAIN fs

-----------------------------------------------------------------------------
(* json: the text of a file is the JSON value it spells *)

JNull == [j |-> "null"]
JString(chars) == [j |-> "string", v |-> chars]
JArray(seq) == [j |-> "array", v |-> seq]
JObject(f) == [j |-> "object", v |-> f]
NotJson == [j |-> "text"]

\* json.dump of None or a str
DumpScalar(v) == IF v = None THEN JNull ELSE JString(v.s)

\* json.load of null or a string
LoadScalar(jv) == IF jv = JNull THEN None ELSE Str(jv.v)

\* json.dump of a dict whose values are None or str
DumpDict(d) == JObject([k \in DOMAIN d |-> DumpScalar(d[k])])

LoadDict(jv) == [k \in DOMAIN jv.v |-> LoadScalar(jv.v[k])]

\* the files that exist before the program runs
InitFiles == (NotesTxt :> NotJson) @@ (EmptyJson :> JObject(<<>>))

-----------------------------------------------------------------------------
(* conmgr/contact.py: the dictionary form of a Contact *)

\* Contact.to_dict
to_dict(c) ==
    [k \in ATTR_SET |->
        CASE k = "first_name" -> c.first_name
          [] k = "last_name" -> c.last_name
          [] k = "email" -> c.email
          [] k = "phone" -> c.phone
          [] k = "address" -> c.address]

\* Contact.from_dict
from_dict(d) ==
    IF ATTR_SET # DOMAIN d
    THEN Raise("ValueError", "Bad argument names passed to the constructor.", None)
    ELSE Contact(0, d["first_name"], d["last_name"], d["email"], d["phone"],
                 d["address"])

-----------------------------------------------------------------------------
(* conmgr/contact_mgr.py: ContactManager *)

\* the manager's fields as one value
Mgr(cs, sp, ps, es) ==
    [contacts |-> cs, store_path |-> sp, phone_set |-> ps, email_set |-> es]

NoMgr == Mgr(<<>>, Path(Empty), {}, {})

\* list(cs): a new list of the same objects, which the caller still holds
shallowcopy(cs) == cs

\* copy.deepcopy(cs): a new list of new objects, none of which the caller
\* holds a name for
deepcopy(cs) == [i \in 1..Len(cs) |-> [cs[i] EXCEPT !.id = 0]]

\* ContactManager.__init__ without its check of the emails
ContactManagerNoEmailCheck(cs, dir, fs) ==
    LET m == Mgr(deepcopy(cs),
                 PathJoin(Path(dir), ContactsJson),
                 {cs[i].phone : i \in 1..Len(cs)},
                 {cs[i].email : i \in 1..Len(cs)})
        tmp_path == Path(dir)
    IN  IF Len(cs) # Cardinality(m.phone_set)
        THEN Raise("ValueError", "Duplicate phone numbers in contacts list.", NoMgr)
        ELSE IF ~Exists(fs, tmp_path)
        THEN Raise("ValueError", "Path does not exist", NoMgr)
        ELSE IF ~IsDir(tmp_path)
        THEN Raise("ValueError", "Path does not point to a directory.", NoMgr)
        ELSE Return(None, m)

\* ContactManager.__init__(contacts, store_path)
ContactManager(cs, dir, fs) ==
    LET m == Mgr(deepcopy(cs),
                 PathJoin(Path(dir), ContactsJson),
                 {cs[i].phone : i \in 1..Len(cs)},
                 {cs[i].email : i \in 1..Len(cs)})
        tmp_path == Path(dir)
    IN  IF Len(cs) # Cardinality(m.phone_set)
        THEN Raise("ValueError", "Duplicate phone numbers in contacts list.", NoMgr)
        ELSE IF Len(cs) # Cardinality(m.email_set)
        THEN Raise("ValueError", "Duplicate emails in contacts list.", NoMgr)
        ELSE IF ~Exists(fs, tmp_path)
        THEN Raise("ValueError", "Path does not exist", NoMgr)
        ELSE IF ~IsDir(tmp_path)
        THEN Raise("ValueError", "Path does not point to a directory.", NoMgr)
        ELSE Return(None, m)

\* add_contact with its two duplicate checks in the other order
add_contact_email_first(m, new) ==
    IF new.email \in m.email_set
    THEN Raise("DuplicateEmailError", "Email already exists.", m)
    ELSE IF new.phone \in m.phone_set
    THEN Raise("DuplicatePhoneError", "Phone already exists.", m)
    ELSE Return(None, Mgr(Append(m.contacts, new), m.store_path,
                          m.phone_set \cup {new.phone},
                          m.email_set \cup {new.email}))

\* add_contact that records the phone before it checks the email
add_contact_phone_recorded_early(m, new) ==
    IF new.phone \in m.phone_set
    THEN Raise("DuplicatePhoneError", "Phone already exists.", m)
    ELSE IF new.email \in m.email_set
    THEN Raise("DuplicateEmailError", "Email already exists.",
               [m EXCEPT !.phone_set = @ \cup {new.phone}])
    ELSE Return(None, Mgr(Append(m.contacts, new), m.store_path,
                          m.phone_set \cup {new.phone},
                          m.email_set \cup {new.email}))

\* ContactManager.add_contact(new)
add_contact(m, new) ==
    IF new.phone \in m.phone_set
    THEN Raise("DuplicatePhoneError", "Phone already exists.", m)
    ELSE IF new.email \in m.email_set
    THEN Raise("DuplicateEmailError", "Email already exists.", m)
    ELSE Return(None, Mgr(Append(m.contacts, new), m.store_path,
                          m.phone_set \cup {new.phone},
                          m.email_set \cup {new.email}))

\* next(x for x in cs if x.a == v): the position of the first match, 0 for
\* StopIteration
FirstIndex(cs, a, v) ==
    LET hits == {i \in 1..Len(cs) : cs[i][a] = v}
    IN  IF hits = {} THEN 0 ELSE CHOOSE i \in hits : \A j \in hits : i <= j

\* a reference to the object at position i of self.contacts
Ref(i) == [ref |-> i]

\* ContactManager.__find_contact_email(email)
find_contact_email(m, email) ==
    LET i == FirstIndex(m.contacts, "email", email)
    IN  IF i = 0 THEN Raise("StopIteration", "", m) ELSE Return(Ref(i), m)

\* ContactManager.__find_contact_phone(phone)
find_contact_phone(m, phone) ==
    LET i == FirstIndex(m.contacts, "phone", phone)
    IN  IF i = 0 THEN Raise("StopIteration", "", m) ELSE Return(Ref(i), m)

\* ContactManager.find_contact(phone=None, email=None)
find_contact(m, phone, email) ==
    IF ~Truthy(phone) /\ ~Truthy(email)
    THEN Raise("ValueError", "Provide at least a phone number or an email.", m)
    ELSE IF phone # None
    THEN IF phone \in m.phone_set THEN find_contact_phone(m, phone)
         ELSE Return(None, m)
    ELSE IF email \in m.email_set THEN find_contact_email(m, email)
         ELSE Return(None, m)

\* list.remove(con), con being the object at position at: drops the first
\* element that is con or equals it
ListRemove(cs, at) ==
    LET i == CHOOSE k \in 1..at :
                 /\ k = at \/ ContactEq(cs[k], cs[at])
                 /\ \A l \in 1..at : (l = at \/ ContactEq(cs[l], cs[at])) => k <= l
    IN  SubSeq(cs, 1, i - 1) \o SubSeq(cs, i + 1, Len(cs))

\* ContactManager.__remove_contact(con); set.remove raises KeyError on a
\* value the set lacks, after the statements before it have taken effect
remove_contact_private(m, at) ==
    LET con == m.contacts[at]
    IN  IF con.phone \notin m.phone_set
        THEN Raise("KeyError", "phone", m)
        ELSE IF con.email \notin m.email_set
        THEN Raise("KeyError", "email",
                   [m EXCEPT !.phone_set = m.phone_set \ {con.phone}])
        ELSE Return(None, Mgr(ListRemove(m.contacts, at), m.store_path,
                              m.phone_set \ {con.phone},
                              m.email_set \ {con.email}))

\* ContactManager.remove_contact(phone=None, email=None)
remove_contact(m, phone, email) ==
    IF ~Truthy(phone) /\ ~Truthy(email)
    THEN Raise("ValueError", "Provide at least a phone number or an email.", m)
    ELSE LET byPhone == IF phone # None THEN find_contact(m, phone, None)
                        ELSE Return(None, m)
         IN  IF byPhone.exc # "None" THEN byPhone
             ELSE IF byPhone.ret # None
             THEN remove_contact_private(m, byPhone.ret.ref)
             ELSE LET byEmail == find_contact(m, None, email)
                  IN  IF byEmail.exc # "None" THEN byEmail
                      ELSE IF byEmail.ret # None
                      THEN remove_contact_private(m, byEmail.ret.ref)
                      ELSE Return(None, m)

\* the two statements of __swap_phone and of __swap_email with the add before
\* the remove
SwapStatesAddFirst(index, old, new) ==
    <<index \cup {new}, (index \cup {new}) \ {old}>>

\* the index set after each of the two statements of __swap_phone and of
\* __swap_email, old being in the set: index.remove(old), then index.add(new)
SwapStates(index, old, new) ==
    <<index \ {old}, (index \ {old}) \cup {new}>>

\* ContactManager.__swap_phone(c, new)
swap_phone(m, c, new) ==
    IF c.phone \notin m.phone_set THEN Raise("KeyError", "phone", m)
    ELSE Return(None, [m EXCEPT !.phone_set = SwapStates(m.phone_set, c.phone, new)[2]])

\* ContactManager.__swap_email(c, new)
swap_email(m, c, new) ==
    IF c.email \notin m.email_set THEN Raise("KeyError", "email", m)
    ELSE Return(None, [m EXCEPT !.email_set = SwapStates(m.email_set, c.email, new)[2]])

\* c.a = v, c being the object at position at of self.contacts
SetAttr(m, at, a, v) == [m EXCEPT !.contacts[at][a] = v]

RECURSIVE ApplyUpdates(_, _, _)
\* the loop of edit_contact over updates.items(), a sequence of <<a, v>>;
\* c is the object at position at
ApplyUpdates(m, at, updates) ==
    IF updates = <<>> THEN Return(None, m)
    ELSE LET a == Head(updates)[1]
             v == Head(updates)[2]
             c == m.contacts[at]
         IN  CASE a \in {"first_name", "last_name", "address"} ->
                    ApplyUpdates(SetAttr(m, at, a, v), at, Tail(updates))
               [] a = "email" ->
                    LET sw == swap_email(m, c, v)
                    IN  IF sw.exc # "None" THEN sw
                        ELSE ApplyUpdates(SetAttr(sw.m, at, a, v), at, Tail(updates))
               [] a = "phone" ->
                    LET sw == swap_phone(m, c, v)
                    IN  IF sw.exc # "None" THEN sw
                        ELSE ApplyUpdates(SetAttr(sw.m, at, a, v), at, Tail(updates))
               [] OTHER -> ApplyUpdates(m, at, Tail(updates))

\* ContactManager.edit_contact(phone_id, **updates)
edit_contact(m, phone_id, updates) ==
    LET found == find_contact(m, phone_id, None)
    IN  IF found.exc # "None" THEN found
        ELSE IF found.ret = None
        THEN Raise("ValueError", "Invalid phone identifier.", m)
        ELSE ApplyUpdates(m, found.ret.ref, updates)

-----------------------------------------------------------------------------
(* conmgr/contact_mgr.py: the snapshot and its file *)

\* ContactManager.to_json
to_json(m) ==
    [contacts |-> [i \in 1..Len(m.contacts) |-> to_dict(m.contacts[i])],
     store_path |-> PathStr(m.store_path)]

\* json.dump(snapshot, f): the text written
json_dump(snap) ==
    JObject(("contacts" :> JArray([i \in 1..Len(snap.contacts) |->
                                      DumpDict(snap.contacts[i])]))
            @@ ("store_path" :> DumpScalar(snap.store_path)))

\* to_file that leaves a file that exists as it is
to_file_keep(m, fs) ==
    LET json_str == to_json(m)
        path == json_str.store_path
    IN  fs @@ (path :> json_dump(json_str))

\* ContactManager.to_file: open(path, "w") replaces the whole file
to_file(m, fs) ==
    LET json_str == to_json(m)
        path == json_str.store_path
    IN  (path :> json_dump(json_str)) @@ fs

RECURSIVE FirstRaise(_)
\* the first result of a sequence of results that raised, or the last one
FirstRaise(rs) ==
    IF Len(rs) = 1 \/ Head(rs).exc # "None" THEN Head(rs)
    ELSE FirstRaise(Tail(rs))

\* ContactManager.from_file(path)
from_file(path, fs) ==
    IF ~Exists(fs, path)
    THEN Raise("ValueError", "Path does not exists.", NoMgr)
    ELSE IF ~IsFile(fs, path)
    THEN Raise("ValueError", "Path does not point to a file.", NoMgr)
    ELSE IF Suffix(path) # DotJson
    THEN Raise("ValueError", "Path does not point to a JSON file.", NoMgr)
    ELSE LET text == fs[PathStr(path)]
         IN  IF text.j # "object"
             THEN Raise("JSONDecodeError", "", NoMgr)
             ELSE IF "contacts" \notin DOMAIN text.v
             THEN Raise("ValueError", "No contacts in the JSON file.", NoMgr)
             ELSE IF "store_path" \notin DOMAIN text.v
             THEN Raise("ValueError", "No store_path in the JSON file.", NoMgr)
             ELSE LET items == text.v["contacts"].v
                      made == [i \in 1..Len(items) |-> from_dict(LoadDict(items[i]))]
                      store == Parent(Path(LoadScalar(text.v["store_path"])))
                  IN  IF Len(made) > 0 /\ FirstRaise(made).exc # "None"
                      THEN [FirstRaise(made) EXCEPT !.m = NoMgr]
                      ELSE ContactManager([i \in 1..Len(made) |-> made[i].ret],
                                          PathStr(store), fs)

-----------------------------------------------------------------------------
(* bounds and inputs *)

\* add_contact is not called on a list that already holds this many contacts
MaxContacts == 2

\* to_file is reached after at most this many calls that change the collection
MaxOps == 2

Emails == {E1, E2}
Phones == {P1, P2}

\* the Contact objects a caller builds: every call of Contact(...) on these
\* arguments that returns
NewContacts ==
    LET made == {Contact(0, Jake, Smith, e, p, None) :
                    e \in Emails \cup {TestVal}, p \in Phones \cup {TestVal}}
    IN  {r.ret : r \in {x \in made : x.exc = "None"}}

WithIds(cs) == [i \in 1..Len(cs) |-> [cs[i] EXCEPT !.id = i]]

\* the lists a caller hands to ContactManager(...): up to two contacts
InitLists ==
    {WithIds(cs) : cs \in {<<>>} \cup {<<a>> : a \in NewContacts}
                          \cup {<<a, b>> : a \in NewContacts, b \in NewContacts}}

StoreArgs == {StoreDir, MissingDir, NotesTxt}

\* the selectors find_contact and remove_contact are called with
PhoneArgs == {None, Empty, TestVal} \cup Phones
EmailArgs == {None, Empty, TestVal} \cup Emails

\* find_contact(phone, email) and remove_contact(phone, email) are called
\* with one selector, with none, or with both
SelectorArgs ==
    {<<p, None>> : p \in PhoneArgs}
    \cup {<<None, e>> : e \in EmailArgs}
    \cup {<<p, e>> : p \in {P1, Empty}, e \in Emails}
    \cup {<<P2, Empty>>}

\* the keyword arguments edit_contact is called with: none, a new email, a new
\* phone, an unknown name alone or before a new phone, the three other
\* attributes, all five attributes at once, or an unknown name before a new
\* email
Nickname == <<"nickname", TestVal>>
NewNames == <<(<<"first_name", TestVal>>), (<<"last_name", TestVal>>)>>
NewAddress == <<"address", TestVal>>

UpdateArgs ==
    {<<>>, <<Nickname>>, <<Nickname, (<<"phone", TestVal>>)>>,
     <<Nickname, (<<"email", E2>>)>>,
     Append(NewNames, NewAddress),
     NewNames \o <<(<<"email", TestVal>>), (<<"phone", TestVal>>), NewAddress>>}
    \cup {<<(<<"email", v>>)>> : v \in Emails}
    \cup {<<(<<"phone", v>>)>> : v \in Phones \cup {TestVal}}

\* the paths from_file is called with, besides the manager's own store_path
PathArgs == {Path(StoreDir), Path(MissingDir), Path(NotesTxt), Path(EmptyJson)}

\* the caller's list is not grown beyond this many contacts
MaxCallerList == 2

\* the attributes a caller assigns, to TestVal, on a Contact it holds
CallerAttrs == {"first_name", "email", "phone"}

-----------------------------------------------------------------------------
(* the state machine *)

M == Mgr(contacts, store_path, phone_set, email_set)

SetMgr(m) ==
    /\ contacts' = m.contacts
    /\ store_path' = m.store_path
    /\ phone_set' = m.phone_set
    /\ email_set' = m.email_set

Last(op, r) == [op |-> op, exc |-> r.exc, msg |-> r.msg, ret |-> r.ret]

\* manager = ContactManager(argContacts, argStore)
Construct ==
    /\ phase = "new"
    /\ \E r \in {ContactManager(argContacts, argStore, files)} :
           /\ phase' = IF r.exc = "None" THEN "ready" ELSE "failed"
           /\ SetMgr(r.m)
           /\ last' = Last("__init__", r)
    /\ UNCHANGED <<argContacts, argStore, files, nops>>

AddContact(new) ==
    /\ phase = "ready"
    /\ \E r \in {add_contact(M, new)} :
           /\ r.exc = "None" => Len(contacts) < MaxContacts
           /\ SetMgr(r.m)
           /\ last' = Last("add_contact", r)
    /\ UNCHANGED <<phase, argContacts, argStore, files>>

FindContact(phone, email) ==
    /\ phase = "ready"
    /\ \E r \in {find_contact(M, phone, email)} :
           /\ SetMgr(r.m)
           /\ last' = Last("find_contact", r)
    /\ UNCHANGED <<phase, argContacts, argStore, files>>

RemoveContact(phone, email) ==
    /\ phase = "ready"
    /\ \E r \in {remove_contact(M, phone, email)} :
           /\ SetMgr(r.m)
           /\ last' = Last("remove_contact", [r EXCEPT !.ret = None])
    /\ UNCHANGED <<phase, argContacts, argStore, files>>

EditContact(phone_id, updates) ==
    /\ phase = "ready"
    /\ \E r \in {edit_contact(M, phone_id, updates)} :
           /\ SetMgr(r.m)
           /\ last' = Last("edit_contact", [r EXCEPT !.ret = None])
    /\ UNCHANGED <<phase, argContacts, argStore, files>>

ToFile ==
    /\ phase = "ready"
    /\ files' = to_file(M, files)
    /\ last' = Last("to_file", Return(None, M))
    /\ UNCHANGED <<phase, argContacts, argStore, mgrVars, nops>>

FromFile(path) ==
    /\ phase = "ready"
    /\ \E r \in {from_file(path, files)} :
           last' = Last("from_file", [r EXCEPT !.ret = IF r.exc = "None" THEN r.m ELSE None])
    /\ UNCHANGED <<phase, argContacts, argStore, mgrVars, files, nops>>

\* the caller appends a Contact it has just built to the list it passed
CallerAppend(new) ==
    /\ phase = "ready"
    /\ Len(argContacts) < MaxCallerList
    /\ LET used == {argContacts[i].id : i \in 1..Len(argContacts)}
                       \cup {contacts[i].id : i \in 1..Len(contacts)}
           ids == 1..(Len(argContacts) + Len(contacts) + 1)
           id == CHOOSE k \in ids \ used : \A l \in ids \ used : k <= l
       IN  argContacts' = Append(argContacts, [new EXCEPT !.id = id])
    /\ last' = [op |-> "caller", exc |-> "None", msg |-> "", ret |-> None]
    /\ UNCHANGED <<phase, argStore, mgrVars, files, nops>>

\* the caller deletes element i of the list it passed
CallerRemove(i) ==
    /\ phase = "ready"
    /\ i \in 1..Len(argContacts)
    /\ argContacts' = SubSeq(argContacts, 1, i - 1)
                          \o SubSeq(argContacts, i + 1, Len(argContacts))
    /\ last' = [op |-> "caller", exc |-> "None", msg |-> "", ret |-> None]
    /\ UNCHANGED <<phase, argStore, mgrVars, files, nops>>

\* every element of cs that is the object the caller holds as id, with a = v
AssignById(cs, id, a, v) ==
    [i \in 1..Len(cs) |-> IF cs[i].id = id THEN [cs[i] EXCEPT ![a] = v] ELSE cs[i]]

\* the caller assigns attribute a of element i of its list: the object changes
\* wherever it is referred to
CallerAssign(i, a) ==
    /\ phase = "ready"
    /\ i \in 1..Len(argContacts)
    /\ argContacts[i][a] # TestVal
    /\ argContacts' = AssignById(argContacts, argContacts[i].id, a, TestVal)
    /\ contacts' = AssignById(contacts, argContacts[i].id, a, TestVal)
    /\ last' = [op |-> "caller", exc |-> "None", msg |-> "", ret |-> None]
    /\ UNCHANGED <<phase, argStore, store_path, phone_set, email_set, files, nops>>

Add == \E new \in NewContacts : AddContact(new)

Find == \E sel \in SelectorArgs : FindContact(sel[1], sel[2])

Remove == \E sel \in SelectorArgs : RemoveContact(sel[1], sel[2])

Edit == \E phone_id \in PhoneArgs \ {None}, updates \in UpdateArgs :
            EditContact(phone_id, updates)

\* the state after manager = ContactManager(cs, StoreDir) has returned, the
\* caller keeping no reference to cs
Init ==
    \E cs \in InitLists :
        \E r \in {ContactManager(cs, StoreDir, InitFiles)} :
            /\ r.exc = "None"
            /\ phase = "ready"
            /\ argContacts = <<>>
            /\ argStore = StoreDir
            /\ contacts = r.m.contacts
            /\ store_path = r.m.store_path
            /\ phone_set = r.m.phone_set
            /\ email_set = r.m.email_set
            /\ files = InitFiles
            /\ last = Last("__init__", r)
            /\ nops = 0

Next ==
    \/ Add /\ UNCHANGED nops
    \/ Find /\ UNCHANGED nops
    \/ Remove /\ UNCHANGED nops
    \/ Edit /\ UNCHANGED nops

Spec == Init /\ [][Next]_vars

\* construction: a caller's list and directory, ContactManager(...) called on
\* them, and what the caller does to its list and its Contacts afterwards
InitNew ==
    /\ phase = "new"
    /\ argContacts \in InitLists
    /\ argStore \in StoreArgs
    /\ contacts = NoMgr.contacts
    /\ store_path = NoMgr.store_path
    /\ phone_set = NoMgr.phone_set
    /\ email_set = NoMgr.email_set
    /\ files = InitFiles
    /\ last = [op |-> "none", exc |-> "None", msg |-> "", ret |-> None]
    /\ nops = 0

NextNew ==
    \/ Construct
    \/ \E new \in NewContacts : CallerAppend(new)
    \/ \E i \in 1..MaxCallerList : CallerRemove(i)
    \/ \E i \in 1..MaxCallerList, a \in CallerAttrs : CallerAssign(i, a)

SpecNew == InitNew /\ [][NextNew]_vars

\* persistence: a constructed manager, a bounded number of calls that change
\* it, and find_contact / to_file / from_file at any point
Counted(A) == nops < MaxOps /\ nops' = nops + 1 /\ A

NextFile ==
    \/ Counted(Add)
    \/ Counted(Remove)
    \/ Counted(Edit)
    \/ Find /\ UNCHANGED nops
    \/ ToFile
    \/ \E path \in PathArgs \cup {store_path} : FromFile(path)

SpecFile == Init /\ [][NextFile]_vars

-----------------------------------------------------------------------------
(* Contact on its own: a caller builds Contacts and compares them *)

\* the caller keeps at most this many Contacts
MaxMade == 3

\* eight digits, and nine digits followed by a letter
EightDigits == Str(<<"1", "1", "1", "1", "1", "1", "1", "1">>)
NineDigitsX == Str(P1.s \o <<"x">>)

\* a '.' before the '@' only; a newline before the '@'; a newline after the '.'
DotAt == Str(<<"a", ".", "b", "@", "c">>)
NewlineAt == Str(<<"x", "\n", "@", "y", ".", "z">>)
AtDotNewline == Str(<<"a", "@", "b", ".", "\n", "c">>)

EmailStrs == {E1, E2, TestVal, Empty, DotAt, NewlineAt, AtDotNewline}
PhoneStrs == {P1, P2, TestVal, Empty, EightDigits, NineDigitsX}

\* the <<email, phone, addr>> Contact(...) is called with
ContactArgs ==
    {<<e, P1, Omitted>> : e \in EmailStrs}
    \cup {<<E2, p, Omitted>> : p \in PhoneStrs}
    \cup {<<E1, P1, None>>, <<E1, P1, TestVal>>, <<NewlineAt, TestVal, Omitted>>}

\* c = Contact(first, lastName, email, phone[, addr]); addr defaults to None
NewContact(first, lastName, email, phone, addr) ==
    /\ phase = "new"
    /\ \E r \in {Contact(Len(argContacts) + 1, first, lastName, email, phone,
                          IF addr = Omitted THEN None ELSE addr)} :
           /\ r.exc = "None" => Len(argContacts) < MaxMade
           /\ argContacts' = IF r.exc = "None" THEN Append(argContacts, r.ret)
                              ELSE argContacts
           /\ last' = [op |-> "Contact", exc |-> r.exc, msg |-> r.msg, ret |-> r.ret,
                        args |-> <<first, lastName, email, phone, addr>>]
    /\ UNCHANGED <<phase, argStore, mgrVars, files, nops>>

\* a == b, a and b being the caller's Contacts i and j
EqContacts(i, j) ==
    /\ phase = "new"
    /\ i \in 1..Len(argContacts)
    /\ j \in 1..Len(argContacts)
    /\ last' = [op |-> "__eq__", exc |-> "None", msg |-> "",
                 ret |-> Bool(ContactEq(argContacts[i], argContacts[j])),
                 args |-> <<i, j>>]
    /\ UNCHANGED <<phase, argContacts, argStore, mgrVars, files, nops>>

InitContact ==
    /\ phase = "new"
    /\ argContacts = <<>>
    /\ argStore = StoreDir
    /\ contacts = NoMgr.contacts
    /\ store_path = NoMgr.store_path
    /\ phone_set = NoMgr.phone_set
    /\ email_set = NoMgr.email_set
    /\ files = InitFiles
    /\ last = [op |-> "none", exc |-> "None", msg |-> "", ret |-> None]
    /\ nops = 0

NextContact ==
    \/ \E a \in ContactArgs : NewContact(Jake, Smith, a[1], a[2], a[3])
    \/ \E i, j \in 1..MaxMade : EqContacts(i, j)

SpecContact == InitContact /\ [][NextContact]_vars

-----------------------------------------------------------------------------
(* what the claims are stated with *)

\* the manager's fields after the step
MNext == Mgr(contacts', store_path', phone_set', email_set')

PhonesOf(cs) == {cs[i].phone : i \in 1..Len(cs)}

EmailsOf(cs) == {cs[i].email : i \in 1..Len(cs)}

\* position of the first contact with this phone (email), 0 if there is none
FirstWithPhone(cs, phone) ==
    LET hits == {i \in 1..Len(cs) : cs[i].phone = phone}
    IN  IF hits = {} THEN 0 ELSE CHOOSE i \in hits : \A j \in hits : i <= j

FirstWithEmail(cs, email) ==
    LET hits == {i \in 1..Len(cs) : cs[i].email = email}
    IN  IF hits = {} THEN 0 ELSE CHOOSE i \in hits : \A j \in hits : i <= j

\* the selectors that name a phone only, or an email only
OneSelector == {sel \in SelectorArgs : (sel[1] = None) # (sel[2] = None)}

\* the new phone among updates, None if updates gives none
NewPhone(updates) ==
    LET at == {k \in 1..Len(updates) : updates[k][1] = "phone"}
    IN  IF at = {} THEN None ELSE updates[CHOOSE k \in at : TRUE][2]

\* the value updates gives for attribute a, old if it gives none
NewValue(updates, a, old) ==
    LET at == {k \in 1..Len(updates) : updates[k][1] = a}
    IN  IF at = {} THEN old ELSE updates[CHOOSE k \in at : TRUE][2]

\* cs without its element at position at
Without(cs, at) == SubSeq(cs, 1, at - 1) \o SubSeq(cs, at + 1, Len(cs))

-----------------------------------------------------------------------------
(* C1..C10 *)

\* C1: after every public operation the phone index is exactly the set of the
\* contacts' phones and the email index exactly the set of their emails.
C1_IndexSync ==
    phase = "ready" =>
        /\ phone_set = PhonesOf(contacts)
        /\ email_set = EmailsOf(contacts)

\* C2: no two contacts of the sequence share a phone, and no two share an
\* email, whatever add_contact, remove_contact and edit_contact calls were made.
C2_Unique ==
    \A i, j \in 1..Len(contacts) :
        i # j => /\ contacts[i].phone # contacts[j].phone
                 /\ contacts[i].email # contacts[j].email

\* C3: remove_contact with a selector that matches no contact raises nothing
\* and leaves the sequence and both index sets as they were.
C3_RemoveMissingIsNoOp ==
    [][\A sel \in OneSelector :
          (/\ Truthy(sel[1]) \/ Truthy(sel[2])
           /\ FirstWithPhone(contacts, sel[1]) = 0
           /\ FirstWithEmail(contacts, sel[2]) = 0
           /\ RemoveContact(sel[1], sel[2]))
          => (last'.exc = "None" /\ UNCHANGED mgrVars)]_vars

\* C4: add_contact(c) raises DuplicatePhoneError when c.phone is indexed
\* (whether or not c.email is), DuplicateEmailError when only c.email is
\* indexed, and returns only when neither is.
C4_AddErrorPrecedence ==
    [][\A new \in NewContacts :
          AddContact(new) =>
              /\ new.phone \in phone_set => last'.exc = "DuplicatePhoneError"
              /\ (new.phone \notin phone_set /\ new.email \in email_set)
                     => last'.exc = "DuplicateEmailError"
              /\ last'.exc = "None"
                     <=> (new.phone \notin phone_set /\ new.email \notin email_set)]_vars

\* an add_contact that found only the email indexed has been made
C4_Witness ==
    last.op = "add_contact" /\ last.exc = "DuplicateEmailError"

\* C5: after add_contact(c) returns, c is the last contact, its phone and
\* email are indexed, and find_contact by its phone and by its email both
\* return c itself.
C5_AddThenFind ==
    [][\A new \in NewContacts :
          (AddContact(new) /\ last'.exc = "None") =>
              /\ contacts'[Len(contacts')] = new
              /\ new.phone \in phone_set'
              /\ new.email \in email_set'
              /\ find_contact(MNext, new.phone, None).ret = Ref(Len(contacts'))
              /\ find_contact(MNext, None, new.email).ret = Ref(Len(contacts'))]_vars

\* C6: after remove_contact by the phone (by the email) of a contact that was
\* present, no contact has the removed contact's phone or email, neither is
\* indexed, and find_contact with the same selector returns None.
C6_RemovePostcondition ==
    [][\A sel \in OneSelector :
          LET at == IF sel[1] # None THEN FirstWithPhone(contacts, sel[1])
                    ELSE FirstWithEmail(contacts, sel[2])
          IN  (at > 0 /\ RemoveContact(sel[1], sel[2])) =>
                  /\ contacts[at].phone \notin PhonesOf(contacts') \cup phone_set'
                  /\ contacts[at].email \notin EmailsOf(contacts') \cup email_set'
                  /\ find_contact(MNext, sel[1], sel[2]) = Return(None, MNext)]_vars

\* C7: after edit_contact(p, phone=q, ...) on a contact with phone p and
\* q # p, find_contact(phone=p) returns None, find_contact(phone=q) returns
\* the contact that was edited, and every other attribute given in the call
\* has its new value.
C7_EditRekeys ==
    [][\A p \in PhoneArgs \ {None}, updates \in UpdateArgs :
          LET at == FirstWithPhone(contacts, p)
              q == NewPhone(updates)
          IN  (at > 0 /\ q # None /\ q # p /\ EditContact(p, updates)) =>
                  /\ find_contact(MNext, p, None) = Return(None, MNext)
                  /\ find_contact(MNext, q, None) = Return(Ref(at), MNext)
                  /\ \A k \in 1..Len(updates) :
                         updates[k][1] \in ATTR_SET
                             => contacts'[at][updates[k][1]] = updates[k][2]]_vars

\* C8: for a manager as constructed from valid contacts with distinct phones
\* and emails, from_file on store_path after to_file returns a manager with
\* the same contacts, attribute for attribute and in the same order, and the
\* same store_path.
C8_RoundTrip ==
    [][(/\ nops = 0
        /\ PathStr(store_path) \in DOMAIN files
        /\ FromFile(store_path))
       => /\ last'.exc = "None"
          /\ FieldsOf(last'.ret.contacts) = FieldsOf(contacts)
          /\ last'.ret.store_path = store_path]_vars

\* a manager constructed from two contacts has been saved and loaded again
C8_Witness ==
    /\ nops = 0
    /\ Len(contacts) = 2
    /\ last.op = "from_file"
    /\ last.exc = "None"
    /\ Len(last.ret.contacts) = 2

\* C9: ContactManager(contacts, dir) raises ValueError naming the phones, and
\* yields no manager, when two contacts share a phone; raises ValueError
\* naming the emails when (no phone is shared and) two share an email; and
\* returns for an existing directory when neither is shared.
C9_ConstructRejectsDuplicates ==
    [][Construct =>
          LET n == Len(argContacts)
              dupPhone == \E i, j \in 1..n :
                              i < j /\ argContacts[i].phone = argContacts[j].phone
              dupEmail == \E i, j \in 1..n :
                              i < j /\ argContacts[i].email = argContacts[j].email
              rejected(msg) == /\ phase' = "failed"
                               /\ last'.exc = "ValueError"
                               /\ last'.msg = msg
                               /\ MNext = NoMgr
          IN  /\ dupPhone => rejected("Duplicate phone numbers in contacts list.")
              /\ (~dupPhone /\ dupEmail)
                     => rejected("Duplicate emails in contacts list.")
              /\ (~dupPhone /\ ~dupEmail /\ argStore \in ExistingDirs)
                     => /\ phase' = "ready"
                        /\ last'.exc = "None"
                        /\ FieldsOf(contacts') = FieldsOf(argContacts)]_vars

\* a construction has been rejected for two contacts sharing an email only
C9_Witness ==
    /\ phase = "failed"
    /\ last.msg = "Duplicate emails in contacts list."
    /\ Len(argContacts) = 2
    /\ argContacts[1].email = argContacts[2].email

\* C10: once ContactManager(contacts, dir) has returned, whatever the caller
\* does to the list it passed or to the Contacts in it changes neither the
\* manager's sequence, nor its contacts' attributes, nor its index sets.
C10_DefensiveCopy ==
    [][(phase = "ready" /\ argContacts' # argContacts)
          => UNCHANGED <<contacts, phone_set, email_set>>]_vars

\* the caller has removed one of the two contacts it passed and assigned the
\* phone of the other, of which the manager still holds the copy as passed
C10_Witness ==
    /\ phase = "ready"
    /\ Len(contacts) = 2
    /\ Len(argContacts) = 1
    /\ argContacts[1].phone = TestVal
    /\ \E j \in 1..2 : /\ contacts[j].email = argContacts[1].email
                       /\ contacts[j].phone # TestVal

-----------------------------------------------------------------------------
(* C11..C20 *)

\* C11: edit_contact(phone_id, ...) with a phone_id that is the phone of no
\* contact raises ValueError and leaves the sequence, every contact's
\* attributes and both index sets as they were.
C11_EditUnknownKey ==
    [][\A p \in PhoneArgs \ {None}, updates \in UpdateArgs :
          (FirstWithPhone(contacts, p) = 0 /\ EditContact(p, updates))
              => (last'.exc = "ValueError" /\ UNCHANGED mgrVars)]_vars

\* C12: when edit_contact finds its contact and updates holds a name that is
\* no attribute of Contact, the call raises nothing, that entry changes no
\* attribute and no index, and every entry that names an attribute is applied.
C12_UnknownNamesSkipped ==
    [][\A p \in PhoneArgs \ {None}, updates \in UpdateArgs :
          LET found == find_contact(M, p, None)
              at == found.ret.ref
              c == contacts[at]
          IN  (/\ found.exc = "None"
               /\ found.ret # None
               /\ \E k \in 1..Len(updates) : updates[k][1] \notin ATTR_SET
               /\ EditContact(p, updates))
              => /\ last'.exc = "None"
                 /\ Len(contacts') = Len(contacts)
                 /\ \A i \in 1..Len(contacts) : i # at => contacts'[i] = contacts[i]
                 /\ \A a \in ATTR_SET : contacts'[at][a] = NewValue(updates, a, c[a])
                 /\ phone_set' = IF NewValue(updates, "phone", None) = None
                                  THEN phone_set
                                  ELSE (phone_set \ {c.phone})
                                           \cup {NewValue(updates, "phone", None)}
                 /\ email_set' = IF NewValue(updates, "email", None) = None
                                  THEN email_set
                                  ELSE (email_set \ {c.email})
                                           \cup {NewValue(updates, "email", None)}]_vars

\* C13: find_contact and remove_contact raise ValueError, changing nothing,
\* when neither a phone nor an email is given, and do not raise it when a phone
\* or an email is given (here: a str that is not empty).
C13_MissingSelector ==
    [][\A sel \in SelectorArgs :
          (FindContact(sel[1], sel[2]) \/ RemoveContact(sel[1], sel[2]))
              => /\ (sel[1] = None /\ sel[2] = None)
                     => (last'.exc = "ValueError" /\ UNCHANGED mgrVars)
                 /\ (Truthy(sel[1]) \/ Truthy(sel[2]))
                     => last'.exc # "ValueError"]_vars

\* C14: find_contact with a phone given (a str that is not empty) returns the
\* first contact of the sequence with that phone when the phone is indexed and
\* None when it is not, whatever email is given; the email decides only when
\* no phone is given.
C14_PhonePriority ==
    [][\A sel \in SelectorArgs :
          FindContact(sel[1], sel[2])
              => /\ Truthy(sel[1])
                     => /\ last'.exc = "None"
                        /\ last'.ret = IF sel[1] \in phone_set
                                       THEN Ref(FirstWithPhone(contacts, sel[1]))
                                       ELSE None
                 /\ (sel[1] = None /\ sel[2] # None /\ last'.exc = "None")
                     => last'.ret = IF sel[2] \in email_set
                                    THEN Ref(FirstWithEmail(contacts, sel[2]))
                                    ELSE None]_vars

\* C15: to_file leaves at store_path exactly the snapshot of the manager as it
\* is at that call, in place of whatever the file held, and leaves every other
\* file alone; no other call changes any file.
C15_FileIsLastSnapshot ==
    [][IF ToFile
       THEN files' = [f \in DOMAIN files \cup {PathStr(store_path)} |->
                         IF f = PathStr(store_path) THEN json_dump(to_json(M))
                         ELSE files[f]]
       ELSE UNCHANGED files]_vars

\* the saved file is older than the manager: an edit_contact after the save
\* has changed the manager and not the file
C15_Witness ==
    /\ PathStr(store_path) \in DOMAIN files
    /\ files[PathStr(store_path)] # json_dump(to_json(M))
    /\ last.op = "edit_contact"
    /\ last.exc = "None"

\* C16 as claimed: Contact(first, last, email, phone[, address]) returns a
\* Contact with every attribute as given (address None when left out) exactly
\* when the email holds an '@' followed later by a '.' and the first nine
\* characters of the phone are digits; otherwise it raises ValueError and
\* there is no Contact.
C16_ContactValidation ==
    [][last'.op = "Contact" =>
       \A a \in ContactArgs :
          NewContact(Jake, Smith, a[1], a[2], a[3]) =>
              LET email == a[1].s
                  phone == a[2].s
                  emailOk == \E i, j \in 1..Len(email) :
                                 i < j /\ email[i] = "@" /\ email[j] = "."
                  phoneOk == /\ Len(phone) >= 9
                             /\ \A k \in 1..9 : phone[k] \in Digits
              IN  IF emailOk /\ phoneOk
                  THEN /\ last'.exc = "None"
                       /\ Fields(last'.ret)
                              = [first_name |-> Jake, last_name |-> Smith,
                                 email |-> a[1], phone |-> a[2],
                                 address |-> IF a[3] = Omitted THEN None ELSE a[3]]
                  ELSE /\ last'.exc = "ValueError"
                       /\ last'.ret = None
                       /\ UNCHANGED argContacts]_vars

\* C16 as amended: the same, the email being accepted exactly when it holds
\* an '@' followed later by a '.' with no newline anywhere before that '.'.
C16_ContactValidationNoNewline ==
    [][last'.op = "Contact" =>
       \A a \in ContactArgs :
          NewContact(Jake, Smith, a[1], a[2], a[3]) =>
              LET email == a[1].s
                  phone == a[2].s
                  emailOk == \E i, j \in 1..Len(email) :
                                 /\ i < j /\ email[i] = "@" /\ email[j] = "."
                                 /\ \A k \in 1..j : email[k] # "\n"
                  phoneOk == /\ Len(phone) >= 9
                             /\ \A k \in 1..9 : phone[k] \in Digits
              IN  IF emailOk /\ phoneOk
                  THEN /\ last'.exc = "None"
                       /\ Fields(last'.ret)
                              = [first_name |-> Jake, last_name |-> Smith,
                                 email |-> a[1], phone |-> a[2],
                                 address |-> IF a[3] = Omitted THEN None ELSE a[3]]
                  ELSE /\ last'.exc = "ValueError"
                       /\ last'.ret = None
                       /\ UNCHANGED argContacts]_vars

\* Contact(...) has refused an email with a newline before its '@', the phone
\* being valid, after it has accepted an email with a newline after its '.'
C16_Witness ==
    /\ last.op = "Contact"
    /\ last.exc = "ValueError"
    /\ last.args[3] = NewlineAt
    /\ last.args[4] = P1
    /\ \E i \in 1..Len(argContacts) : argContacts[i].email = AtDotNewline

\* C17: a == b is (a.phone == b.phone or a.email == b.email); a == a holds,
\* a == b and b == a agree (and the relation is not transitive: the witness).
C17_EqIsPhoneOrEmail ==
    [][last'.op = "__eq__" =>
       \A i, j \in 1..MaxMade :
          EqContacts(i, j) =>
              LET a == argContacts[i]
                  b == argContacts[j]
              IN  /\ last'.ret = Bool(a.phone = b.phone \/ a.email = b.email)
                  /\ i = j => last'.ret = Bool(TRUE)
                  /\ last'.ret = Bool(ContactEq(b, a))
                  /\ ContactEq(a, a)]_vars

\* three Contacts a, b, c with a == b and b == c, of which a == c has just
\* been found False
C17_Witness ==
    /\ last.op = "__eq__"
    /\ last.args = <<1, 3>>
    /\ last.ret = Bool(FALSE)
    /\ Len(argContacts) = 3
    /\ ContactEq(argContacts[1], argContacts[2])
    /\ ContactEq(argContacts[2], argContacts[3])

\* C18: in edit_contact(p, phone=q) with q # p the phone index holds p and q
\* together neither between two statements of the swap nor after the call:
\* the swap removes p, then adds q, the contact's phone still being p, and
\* the assignment of the phone follows; likewise for the email index when the
\* email is updated.
C18_SwapNeverHoldsBoth ==
    [][(last'.op = "edit_contact" /\ last'.exc = "None") =>
       \A p \in phone_set, updates \in UpdateArgs :
          LET found == find_contact(M, p, None)
              at == found.ret.ref
              c == contacts[at]
              q == NewValue(updates, "phone", None)
              e == NewValue(updates, "email", None)
              phones == SwapStates(phone_set, p, q)
              emails == SwapStates(email_set, c.email, e)
          IN  (/\ q # None \/ e # None
               /\ found.exc = "None"
               /\ found.ret # None
               /\ EditContact(p, updates))
              => /\ (q # None /\ q # p)
                     => /\ \A k \in 1..Len(phones) : ~(p \in phones[k] /\ q \in phones[k])
                        /\ p \notin phones[1]
                        /\ q \in phones[2]
                        /\ swap_phone(M, c, q).m.contacts[at].phone = p
                        /\ phone_set' = phones[Len(phones)]
                        /\ contacts'[at].phone = q
                 /\ (e # None /\ e # c.email)
                     => /\ \A k \in 1..Len(emails) :
                               ~(c.email \in emails[k] /\ e \in emails[k])
                        /\ c.email \notin emails[1]
                        /\ e \in emails[2]
                        /\ swap_email(M, c, e).m.contacts[at].email = c.email
                        /\ email_set' = emails[Len(emails)]
                        /\ contacts'[at].email = e]_vars

\* an edit_contact has given a contact the phone "test", which no contact has
\* when it is constructed
C18_Witness ==
    /\ last.op = "edit_contact"
    /\ last.exc = "None"
    /\ TestVal \in phone_set
    /\ Phones \cap phone_set # {}

\* C19: when remove_contact(phone=p) or remove_contact(email=e) finds a
\* contact, the sequence afterwards is the sequence before without exactly
\* that element, the others unchanged and in their order.
C19_RemoveExactlyFound ==
    [][\A sel \in OneSelector :
          LET found == find_contact(M, sel[1], sel[2])
          IN  (/\ found.exc = "None"
               /\ found.ret # None
               /\ RemoveContact(sel[1], sel[2]))
              => contacts' = Without(contacts, found.ret.ref)]_vars

\* C20: remove_contact(phone=p, email=e) with p (a str that is not empty) the
\* phone of no contact and e the email of one removes the contact with email
\* e and discards its phone and email from the index sets; with p the phone
\* of a contact it removes that contact alone, whatever e is.
C20_RemoveFallThrough ==
    [][\A sel \in SelectorArgs :
          LET byPhone == FirstWithPhone(contacts, sel[1])
              byEmail == FirstWithEmail(contacts, sel[2])
              removed(at) ==
                  /\ last'.exc = "None"
                  /\ contacts' = Without(contacts, at)
                  /\ phone_set' = phone_set \ {contacts[at].phone}
                  /\ email_set' = email_set \ {contacts[at].email}
          IN  (/\ Truthy(sel[1])
               /\ sel[2] # None
               /\ RemoveContact(sel[1], sel[2]))
              => /\ byPhone > 0 => removed(byPhone)
                 /\ (byPhone = 0 /\ byEmail > 0) => removed(byEmail)]_vars

-----------------------------------------------------------------------------
(* C21..C23 *)

\* C21: an add_contact call that fails with DuplicatePhoneError or
\* DuplicateEmailError leaves the contact list (its objects, their fields and
\* their order) and both index sets as they were before the call.
C21_FailedAddChangesNothing ==
    [][(/\ last'.op = "add_contact"
        /\ last'.exc \in {"DuplicatePhoneError", "DuplicateEmailError"})
       => /\ contacts' = contacts
          /\ phone_set' = phone_set
          /\ email_set' = email_set]_vars

\* an add_contact call has failed on the email of a contact that is in the
\* list, with a phone that was not indexed
C21_Witness ==
    /\ last.op = "add_contact"
    /\ last.exc = "DuplicateEmailError"
    /\ contacts # <<>>
    /\ Phones \ phone_set # {}

\* C22: every add_contact, remove_contact, edit_contact and find_contact call
\* either returns or raises a documented error (ValueError,
\* DuplicatePhoneError, DuplicateEmailError); none raises KeyError from a
\* set.remove on an index set that lacks the value, or StopIteration from a
\* scan of the list for an indexed value no contact holds.
C22_NoInternalFailure ==
    last.op \in {"add_contact", "remove_contact", "edit_contact", "find_contact"}
    => last.exc \in {"None", "ValueError", "DuplicatePhoneError",
                     "DuplicateEmailError"}

\* C23: from_file on store_path right after to_file returns, without an
\* error from decoding the contacts or constructing the manager, a manager with
\* the same contacts, attribute for attribute and in the same order, whatever
\* add_contact, remove_contact and edit_contact calls came before the save.
C23_SavedIsLoadable ==
    [][(/\ last.op = "to_file"
        /\ FromFile(store_path))
       => /\ last'.exc = "None"
          /\ FieldsOf(last'.ret.contacts) = FieldsOf(contacts)]_vars

=============================================================================
